---- MODULE Spec2Model ----
(***************************************************************************)
(* Model of src/scripts/main.py: the housework data-entry form.            *)
(*                                                                         *)
(* One route, add_task_record, handles GET and POST.  A POST is either a   *)
(* manual record (action 'submit_record') or a CSV upload (action          *)
(* 'upload_csv').  An accepted POST calls the stored procedure that        *)
(* truncates the staging table, writes to staging, then calls the          *)
(* procedures that populate the fact table and backfill the aggregate.     *)
(*                                                                         *)
(* Every database call (a stored procedure call with its commit, the       *)
(* single-record add/commit, the bulk insert/commit) is one atomic step    *)
(* that either succeeds or raises SQLAlchemyError.  The reads of the       *)
(* reference tables (Person.query.all(), Task.query.all()) are taken to    *)
(* succeed, and an uploaded CSV always carries the four expected columns.  *)
(***************************************************************************)
EXTENDS Integers, Sequences, FiniteSets, TLC

\* ----------------------------------------------------------------- bounds
MaxRows     == 2   \* data rows of an uploaded CSV
MaxRequests == 2   \* requests served in one behaviour
MaxThreads  == 2   \* requests that may be in flight together
MaxFaults   == 1   \* database calls that raise in one behaviour

Threads == 1..MaxThreads

\* ------------------------------------------------------- Python values
\* A value that may be None: ids returned by dict.get, IntegerField.data.
None    == [none |-> TRUE,  val |-> 0]
Some(n) == [none |-> FALSE, val |-> n]

\* Python truthiness of an optional integer: `not x` is true of None and of 0.
Truthy(x) == ~x.none /\ x.val # 0

\* dict.get(key): the value, or None when the key is absent.
DictGet(d, key) == IF key \in DOMAIN d THEN Some(d[key]) ELSE None

\* --------------------------------------------------- reference data
PersonNames == {"Alice", "NA"}      \* names a dim_person row may carry
TaskNames   == {"Dishes"}           \* names a dim_task row may carry
Ids         == 0..1                 \* primary keys (any integer)

Injective(f) == \A a, b \in DOMAIN f : f[a] = f[b] => a = b

\* Every name -> id dictionary over a set of names (ids are primary keys).
Mappings(names) ==
  UNION { {f \in [S -> Ids] : Injective(f)} : S \in SUBSET names }

\* ------------------------------------------------------------ file names
\* A file name is a sequence of characters.
Lower(c) == CASE c = "C" -> "c" [] c = "S" -> "s" [] c = "V" -> "v"
              [] c = "T" -> "t" [] c = "X" -> "x" [] OTHER -> c

\* str.lower()
LowerStr(s) == [i \in 1..Len(s) |-> Lower(s[i])]

\* '.' in filename
HasDot(s) == \E i \in 1..Len(s) : s[i] = "."

\* filename.rsplit('.', 1)[1]: what follows the last '.'.
RsplitExt(s) ==
  LET last == CHOOSE i \in 1..Len(s) :
                s[i] = "." /\ \A j \in (i+1)..Len(s) : s[j] # "."
  IN  SubSeq(s, last + 1, Len(s))

allowed_file(filename) ==
  HasDot(filename) /\ LowerStr(RsplitExt(filename)) \in {<<"c", "s", "v">>}

FileNames ==
  { <<"a", ".", "c", "s", "v">>,
    <<"a", ".", "C", "s", "V">>,
    <<"a", ".", "t", "x", "t">>,
    <<"a", ".", "c", "s", "v", ".", "t", "x", "t">>,
    <<"c", "s", "v">> }

\* ------------------------------------------------------------------- CSV
\* A data row as written in the file: the text of its four cells.
CsvPersonCells == {"Alice", "NA", "Bob"}
CsvTaskCells   == {"Dishes", "Mop"}
CsvMinutes     == {10, 15}
TheDate        == "2024-01-01"

CsvRows == [Date : {TheDate}, Person : CsvPersonCells, Task : CsvTaskCells,
            Minutes : CsvMinutes]

RECURSIVE SeqsUpTo(_, _)
SeqsUpTo(S, n) ==
  IF n = 0 THEN {<<>>}
  ELSE LET shorter == SeqsUpTo(S, n - 1)
       IN  shorter \cup {Append(s, x) : s \in {q \in shorter : Len(q) = n - 1}, x \in S}

\* pandas.read_csv turns a cell whose text is one of its default NA markers
\* into NaN; NaN is a float, equal to no dictionary key.
NaN       == "<NaN>"
NaMarkers == {"", "NA", "N/A", "NULL", "NaN", "nan", "null"}
ReadCell(c) == IF c \in NaMarkers THEN NaN ELSE c

\* pd.read_csv(data): the data frame, one parsed row per data row.
read_csv(content) ==
  [i \in 1..Len(content) |->
     [Date    |-> content[i].Date,
      Person  |-> ReadCell(content[i].Person),
      Task    |-> ReadCell(content[i].Task),
      Minutes |-> content[i].Minutes]]

\* -------------------------------------------------------------- messages
\* flash(text, category); `name` and `n` are what the f-string interpolates.
Flash(category, text, name, n) ==
  [category |-> category, text |-> text, name |-> name, n |-> n]

Msg(category, text) == Flash(category, text, "", 0)

\* ------------------------------------------------------------ TaskRecord
TaskRecord(date, person_id, task_id, minutes) ==
  [date |-> date, person_id |-> person_id, task_id |-> task_id,
   task_duration_minutes |-> minutes]

\* Rows of the staging table: a TaskRecord with the request that inserted it
\* and its position in that request's batch (together the auto-assigned id).
Staged(r, records) ==
  {[rid |-> r, idx |-> i, rec |-> records[i]] : i \in 1..Len(records)}

\* ----------------------------------------------------------- process_csv
\* The loop without its two lookup checks: every row becomes a record.
RECURSIVE ScanRowsKeepAll(_, _, _, _)
ScanRowsKeepAll(ps, ts, df, i) ==
  IF i > Len(df) THEN [records |-> <<>>, flashes |-> <<>>]
  ELSE
    LET row       == df[i]
        person_id == DictGet(ps, row.Person)
        task_id   == DictGet(ts, row.Task)
        rest      == ScanRowsKeepAll(ps, ts, df, i + 1)
    IN  [records |-> <<TaskRecord(row.Date, person_id.val, task_id.val, row.Minutes)>>
                       \o rest.records,
         flashes |-> rest.flashes]

\* Lines 100-122: the loop over the data frame from row i on.  The result is
\* the list task_records and the messages flashed, in order.
RECURSIVE ScanRows(_, _, _, _)
ScanRows(ps, ts, df, i) ==
  IF i > Len(df) THEN [records |-> <<>>, flashes |-> <<>>]
  ELSE
    LET row       == df[i]
        person_id == DictGet(ps, row.Person)
        task_id   == DictGet(ts, row.Task)
        rest      == ScanRows(ps, ts, df, i + 1)
    IN  IF ~Truthy(person_id)
        THEN [records |-> rest.records,
              flashes |-> <<Flash("danger", "Person not found in database.", row.Person, 0)>>
                            \o rest.flashes]
        ELSE IF ~Truthy(task_id)
        THEN [records |-> rest.records,
              flashes |-> <<Flash("danger", "Task not found in database.", row.Task, 0)>>
                            \o rest.flashes]
        ELSE [records |-> <<TaskRecord(row.Date, person_id.val, task_id.val, row.Minutes)>>
                            \o rest.records,
              flashes |-> rest.flashes]

\* ------------------------------------------------------------------ form
\* The text posted for task_duration_minutes.
RawMinutes ==
  {[kind |-> "missing", val |-> 0], [kind |-> "text", val |-> 0]}
    \cup {[kind |-> "int", val |-> n] : n \in {-1, 0, 15}}

\* IntegerField: no value posted keeps default=0; text that int() rejects
\* leaves data None.
IntegerFieldData(raw) ==
  CASE raw.kind = "missing" -> Some(0)
    [] raw.kind = "int"     -> Some(raw.val)
    [] OTHER                -> None

\* DateField(format='%Y-%m-%d'): text that strptime rejects leaves data None
\* (written "").
DateFieldData(raw) == IF raw = TheDate THEN raw ELSE ""

NoFile == [present |-> FALSE, filename |-> <<>>, content |-> <<>>]

\* FileAllowed(['csv']): no file, or a name ending in '.csv' after lower().
FileAllowed(file) ==
  ~file.present
    \/ LET s == LowerStr(file.filename)
       IN  Len(s) >= 4 /\ SubSeq(s, Len(s) - 3, Len(s)) = <<".", "c", "s", "v">>

\* form.validate_on_submit(): every field's validators (lines 170-174); the
\* select fields also require the value to be one of the choices.
\* DataRequired accepts any truthy data, so it refuses 0 and accepts -1.  The
\* CSRF token is taken to be valid.
validate_on_submit(r, personChoices, taskChoices) ==
  /\ r.method = "POST"
  /\ DateFieldData(r.date) # ""
  /\ r.person \in personChoices /\ r.person # 0
  /\ r.task \in taskChoices /\ r.task # 0
  /\ Truthy(IntegerFieldData(r.minutes))
  /\ FileAllowed(r.file)

NoRequest ==
  [method |-> "GET", action |-> "none", date |-> TheDate, person |-> 0, task |-> 0,
   minutes |-> [kind |-> "missing", val |-> 0], file |-> NoFile]

\* ------------------------------------------------------------------ state
VARIABLES
  persons,   \* dim_person as the dictionary name -> id
  tasks,     \* dim_task as the dictionary name -> id
  staging,   \* rows of stg_fact_housework_tasks
  served,    \* requests received so far
  faults,    \* database calls that have raised so far
  pc,        \* per thread: where its request stands in add_task_record
  req,       \* per thread: the request it handles
  rid,       \* per thread: the number of its request
  flashes,   \* per thread: the messages flashed for its request, in order
  calls,     \* per thread: the database calls its request made, in order
  staged,    \* per thread: the staging rows its request committed
  popSaw     \* per thread: the staging rows populate_fact_housework_tasks read

vars == <<persons, tasks, staging, served, faults, pc, req, rid, flashes, calls,
          staged, popSaw>>

Terminal == {"rendered", "redirected", "error"}

TRUNCATE == "CALL truncate_stg_fact_housework_tasks()"
POPULATE == "CALL populate_fact_housework_tasks()"
BACKFILL == "CALL backfill_agg_daily_housework_tasks()"

\* A database call may raise while the fault budget lasts.
Outcomes == IF faults < MaxFaults THEN {TRUE, FALSE} ELSE {TRUE}

Charge(ok) == faults' = IF ok THEN faults ELSE faults + 1

InitThreads ==
  /\ staging = {}
  /\ served = 0
  /\ faults = 0
  /\ pc = [t \in Threads |-> "idle"]
  /\ req = [t \in Threads |-> NoRequest]
  /\ rid = [t \in Threads |-> 0]
  /\ flashes = [t \in Threads |-> <<>>]
  /\ calls = [t \in Threads |-> <<>>]
  /\ staged = [t \in Threads |-> {}]
  /\ popSaw = [t \in Threads |-> {}]

\* ------------------------------------------------------------- requests
Actions == {"submit_record", "upload_csv", "other", "none"}

GetRequests == {NoRequest}

\* POSTs of the form without a file.
FormRequests ==
  [method : {"POST"}, action : Actions \ {"upload_csv"}, date : {TheDate, "bad"},
   person : Ids, task : Ids, minutes : RawMinutes, file : {NoFile}]

Uploads(names, contents) ==
  [present : {TRUE}, filename : names, content : contents]

\* POSTs of the upload button: the record fields are left as the page shows
\* them, or the minutes box holds text.
UploadRequests(files, minutes) ==
  [method : {"POST"}, action : {"upload_csv"}, date : {TheDate}, person : {1},
   task : {1}, minutes : minutes, file : files]

Untouched == [kind |-> "missing", val |-> 0]

\* --------------------------------------------------- add_task_record
\* Lines 181-190, 212, 233-238: the dispatch of a request, up to the first
\* database call of an accepted branch or to the response.
Dispatch(t, r) ==
  LET personChoices == {persons[n] : n \in DOMAIN persons}
      taskChoices   == {tasks[n] : n \in DOMAIN tasks}
      data          == IntegerFieldData(r.minutes)
      generic       == Msg("danger", "Invalid action or form submission.")
  IN  IF r.method # "POST"
      THEN /\ pc' = [pc EXCEPT ![t] = "rendered"]
           /\ flashes' = [flashes EXCEPT ![t] = <<>>]
      ELSE IF r.action = "submit_record"
                /\ validate_on_submit(r, personChoices, taskChoices)
      THEN /\ pc' = [pc EXCEPT ![t] = "truncate"]
           /\ flashes' = [flashes EXCEPT ![t] = <<>>]
      ELSE IF r.action = "upload_csv" /\ r.file.present
      THEN /\ pc' = [pc EXCEPT ![t] = "truncate"]
           /\ flashes' = [flashes EXCEPT ![t] = <<>>]
      ELSE IF data.none
      THEN \* None <= 0 raises TypeError, which nothing catches
           /\ pc' = [pc EXCEPT ![t] = "error"]
           /\ flashes' = [flashes EXCEPT ![t] = <<generic>>]
      ELSE IF data.val <= 0 /\ r.action = "submit_record"
      THEN /\ pc' = [pc EXCEPT ![t] = "rendered"]
           /\ flashes' = [flashes EXCEPT ![t] =
                <<generic, Msg("danger", "Minutes field should be greater than 0.")>>]
      ELSE /\ pc' = [pc EXCEPT ![t] = "rendered"]
           /\ flashes' = [flashes EXCEPT ![t] = <<generic>>]

\* A thread takes the next request r.
Receive(t, r) ==
  /\ pc[t] = "idle"
  /\ served < MaxRequests
  /\ served' = served + 1
  /\ req' = [req EXCEPT ![t] = r]
  /\ rid' = [rid EXCEPT ![t] = served + 1]
  /\ calls' = [calls EXCEPT ![t] = <<>>]
  /\ staged' = [staged EXCEPT ![t] = {}]
  /\ popSaw' = [popSaw EXCEPT ![t] = {}]
  /\ Dispatch(t, r)
  /\ UNCHANGED <<persons, tasks, staging, faults>>

\* Lines 24-40.
truncate_postgres_tbl(t, tbl_name, ok) ==
  IF tbl_name = "stg_fact_housework_tasks"
  THEN IF ok
       THEN /\ staging' = {}
            /\ calls' = [calls EXCEPT ![t] = @ \o <<TRUNCATE, "commit">>]
            /\ flashes' = [flashes EXCEPT ![t] =
                 Append(@, Msg("success", "Successfully truncated stg_fact_housework_tasks!"))]
       ELSE /\ staging' = staging
            /\ calls' = [calls EXCEPT ![t] = @ \o <<TRUNCATE, "rollback">>]
            /\ flashes' = [flashes EXCEPT ![t] =
                 Append(@, Msg("danger", "Error while truncate stg_fact_housework_tasks"))]
  ELSE /\ UNCHANGED <<staging, calls>>
       /\ flashes' = [flashes EXCEPT ![t] =
            Append(@, Flash("danger", "Invalid table name", tbl_name, 0))]

\* The truncate made to wait while another request has staged rows that its
\* populate has not read yet.
TruncateStagingLocked(t) ==
  /\ pc[t] = "truncate"
  /\ \A u \in Threads \ {t} : pc[u] \notin {"insert", "check_file", "process_csv", "populate"}
  /\ \E ok \in Outcomes :
       /\ truncate_postgres_tbl(t, "stg_fact_housework_tasks", ok)
       /\ Charge(ok)
  /\ pc' = [pc EXCEPT ![t] =
       IF req[t].action = "submit_record" THEN "insert" ELSE "check_file"]
  /\ UNCHANGED <<persons, tasks, served, req, rid, staged, popSaw>>

\* Lines 192 and 214: both accepted branches truncate staging first.
TruncateStaging(t) ==
  /\ pc[t] = "truncate"
  /\ \E ok \in Outcomes :
       /\ truncate_postgres_tbl(t, "stg_fact_housework_tasks", ok)
       /\ Charge(ok)
  /\ pc' = [pc EXCEPT ![t] =
       IF req[t].action = "submit_record" THEN "insert" ELSE "check_file"]
  /\ UNCHANGED <<persons, tasks, served, req, rid, staged, popSaw>>

\* Lines 195-203: the manual record; nothing catches a failure of the commit.
InsertRecord(t) ==
  /\ pc[t] = "insert"
  /\ \E ok \in Outcomes :
       LET record == TaskRecord(DateFieldData(req[t].date), req[t].person, req[t].task,
                                IntegerFieldData(req[t].minutes).val)
           rows   == Staged(rid[t], <<record>>)
       IN  /\ Charge(ok)
           /\ IF ok
              THEN /\ staging' = staging \cup rows
                   /\ staged' = [staged EXCEPT ![t] = @ \cup rows]
                   /\ calls' = [calls EXCEPT ![t] = @ \o <<"add", "commit">>]
                   /\ flashes' = [flashes EXCEPT ![t] =
                        Append(@, Msg("success", "Task record added successfully!"))]
                   /\ pc' = [pc EXCEPT ![t] = "populate"]
              ELSE /\ calls' = [calls EXCEPT ![t] = @ \o <<"add">>]
                   /\ pc' = [pc EXCEPT ![t] = "error"]
                   /\ UNCHANGED <<staging, staged, flashes>>
  /\ UNCHANGED <<persons, tasks, served, req, rid, popSaw>>

\* Lines 217-220: the extension is looked at after the truncate.
CheckFile(t) ==
  /\ pc[t] = "check_file"
  /\ IF ~allowed_file(req[t].file.filename)
     THEN /\ flashes' = [flashes EXCEPT ![t] =
               Append(@, Msg("danger", "Please upload a valid CSV file."))]
          /\ pc' = [pc EXCEPT ![t] = "redirected"]
     ELSE /\ pc' = [pc EXCEPT ![t] = "process_csv"]
          /\ UNCHANGED flashes
  /\ UNCHANGED <<persons, tasks, staging, served, faults, req, rid, calls, staged, popSaw>>

\* Lines 84-137: the rows process_csv commits to staging, the database calls
\* it makes and the messages it flashes.
process_csv(r, csv_file, ok) ==
  LET scan == ScanRows(persons, tasks, read_csv(csv_file.content), 1)
  IN  IF scan.records # <<>>
      THEN IF ok
           THEN [rows    |-> Staged(r, scan.records),
                 calls   |-> <<"bulk_save_objects", "commit">>,
                 flashes |-> scan.flashes \o
                   <<Flash("success", "Successfully inserted task records.", "",
                           Len(scan.records))>>]
           ELSE [rows    |-> {},
                 calls   |-> <<"bulk_save_objects", "rollback">>,
                 flashes |-> scan.flashes \o <<Msg("danger", "Error processing CSV")>>]
      ELSE [rows    |-> {},
            calls   |-> <<>>,
            flashes |-> scan.flashes \o
              <<Msg("warning", "No valid task records to insert.")>>]

\* The bulk insert is the only database call of process_csv that may raise.
CsvOutcomes(t) ==
  IF ScanRows(persons, tasks, read_csv(req[t].file.content), 1).records = <<>>
  THEN {TRUE} ELSE Outcomes

\* Lines 217, 223-224.
ProcessCsv(t) ==
  /\ pc[t] = "process_csv"
  /\ \E ok \in CsvOutcomes(t) :
       LET done == process_csv(rid[t], req[t].file, ok)
       IN  /\ staging' = staging \cup done.rows
           /\ staged' = [staged EXCEPT ![t] = @ \cup done.rows]
           /\ calls' = [calls EXCEPT ![t] = @ \o done.calls]
           /\ flashes' = [flashes EXCEPT ![t] = @ \o done.flashes \o
                <<Msg("success", "CSV file processed successfully!")>>]
           /\ Charge(ok)
  /\ pc' = [pc EXCEPT ![t] = "populate"]
  /\ UNCHANGED <<persons, tasks, served, req, rid, popSaw>>

\* The wrapper without its except clause: a failure of the call leaves the
\* handler.
populate_fact_housework_tasks_uncaught(t, ok) ==
  /\ popSaw' = [popSaw EXCEPT ![t] = staging]
  /\ IF ok
     THEN /\ calls' = [calls EXCEPT ![t] = @ \o <<POPULATE, "commit">>]
          /\ flashes' = [flashes EXCEPT ![t] =
               Append(@, Msg("success", "Successfully populated fact_housework_tasks!"))]
          /\ pc' = [pc EXCEPT ![t] = "backfill"]
     ELSE /\ calls' = [calls EXCEPT ![t] = @ \o <<POPULATE>>]
          /\ pc' = [pc EXCEPT ![t] = "error"]
          /\ UNCHANGED flashes

\* Lines 43-56.  The procedure reads the staging table as it stands.
populate_fact_housework_tasks(t, ok) ==
  /\ popSaw' = [popSaw EXCEPT ![t] = staging]
  /\ pc' = [pc EXCEPT ![t] = "backfill"]
  /\ IF ok
     THEN /\ calls' = [calls EXCEPT ![t] = @ \o <<POPULATE, "commit">>]
          /\ flashes' = [flashes EXCEPT ![t] =
               Append(@, Msg("success", "Successfully populated fact_housework_tasks!"))]
     ELSE /\ calls' = [calls EXCEPT ![t] = @ \o <<POPULATE, "rollback">>]
          /\ flashes' = [flashes EXCEPT ![t] =
               Append(@, Msg("danger", "Error while populate fact_housework_tasks"))]

\* Lines 206 and 227.
PopulateFact(t) ==
  /\ pc[t] = "populate"
  /\ \E ok \in Outcomes :
       /\ populate_fact_housework_tasks(t, ok)
       /\ Charge(ok)
  /\ UNCHANGED <<persons, tasks, staging, served, req, rid, staged>>

\* Lines 59-72.
backfill_agg_daily_housework_tasks(t, ok) ==
  /\ pc' = [pc EXCEPT ![t] = "redirected"]
  /\ IF ok
     THEN /\ calls' = [calls EXCEPT ![t] = @ \o <<BACKFILL, "commit">>]
          /\ flashes' = [flashes EXCEPT ![t] =
               Append(@, Msg("success", "Successfully backfilling agg_daily_housework_tasks!"))]
     ELSE /\ calls' = [calls EXCEPT ![t] = @ \o <<BACKFILL, "rollback">>]
          /\ flashes' = [flashes EXCEPT ![t] =
               Append(@, Msg("danger", "Error while backfilling agg_daily_housework_tasks"))]

\* Lines 208-210 and 229-231.
BackfillAgg(t) ==
  /\ pc[t] = "backfill"
  /\ \E ok \in Outcomes :
       /\ backfill_agg_daily_housework_tasks(t, ok)
       /\ Charge(ok)
  /\ UNCHANGED <<persons, tasks, staging, served, req, rid, staged, popSaw>>

\* The response leaves (the rendered form, the redirect, or the 500 page of an
\* uncaught exception) and the thread is free again.
Respond(t) ==
  /\ pc[t] \in Terminal
  /\ pc' = [pc EXCEPT ![t] = "idle"]
  /\ req' = [req EXCEPT ![t] = NoRequest]
  /\ rid' = [rid EXCEPT ![t] = 0]
  /\ flashes' = [flashes EXCEPT ![t] = <<>>]
  /\ calls' = [calls EXCEPT ![t] = <<>>]
  /\ staged' = [staged EXCEPT ![t] = {}]
  /\ popSaw' = [popSaw EXCEPT ![t] = {}]
  /\ UNCHANGED <<persons, tasks, staging, served, faults>>

Handle(t) ==
  \/ TruncateStaging(t)
  \/ InsertRecord(t)
  \/ CheckFile(t)
  \/ ProcessCsv(t)
  \/ PopulateFact(t)
  \/ BackfillAgg(t)
  \/ Respond(t)

\* ------------------------------------------- requests one at a time
\* CSV bodies the form handler is exercised with.
HandlerCsvs ==
  SeqsUpTo({r \in CsvRows : r.Task = "Dishes" /\ r.Minutes = 15}, MaxRows)

HandlerRequests ==
  GetRequests \cup FormRequests
    \cup UploadRequests({NoFile} \cup Uploads(FileNames, HandlerCsvs),
                        {m \in RawMinutes : m.kind # "int"})

\* The server handles one request at a time: a request begins when no other
\* is in flight.
Begin(t) ==
  /\ \A u \in Threads : pc[u] = "idle" /\ t <= u
  /\ \E r \in HandlerRequests : Receive(t, r)

Init ==
  /\ persons \in {f \in Mappings(PersonNames) : "Alice" \in DOMAIN f}
  /\ tasks \in {f \in Mappings(TaskNames) : DOMAIN f = TaskNames /\ 0 \notin {f[n] : n \in DOMAIN f}}
  /\ InitThreads

Next == \E t \in Threads : Begin(t) \/ Handle(t)

Spec == Init /\ [][Next]_vars

\* ------------------------------------------------- process_csv alone
\* Every reference mapping and every CSV of at most MaxRows rows, uploaded
\* once under an allowed name.
CsvName == <<"a", ".", "c", "s", "v">>

CsvRequests ==
  UploadRequests(Uploads({CsvName}, SeqsUpTo(CsvRows, MaxRows)), {Untouched})

BeginCsv(t) ==
  /\ served = 0
  /\ \A u \in Threads : t <= u
  /\ \E r \in CsvRequests : Receive(t, r)

InitCsv ==
  /\ persons \in Mappings(PersonNames)
  /\ tasks \in Mappings(TaskNames)
  /\ InitThreads

NextCsv ==
  \E t \in Threads :
    \/ BeginCsv(t)
    \/ TruncateStaging(t)
    \/ CheckFile(t)
    \/ ProcessCsv(t)
    \/ PopulateFact(t)
    \/ BackfillAgg(t)
    \/ Respond(t)

SpecCsv == InitCsv /\ [][NextCsv]_vars

\* ------------------------------------------------ concurrent requests
\* Accepted submissions: a valid manual record, or an upload of one row.
ConcRequests ==
  [method : {"POST"}, action : {"submit_record"}, date : {TheDate}, person : {1},
   task : {1}, minutes : {[kind |-> "int", val |-> 15]}, file : {NoFile}]
    \cup UploadRequests(
           Uploads({CsvName}, {<<[Date |-> TheDate, Person |-> "Alice",
                                  Task |-> "Dishes", Minutes |-> 15]>>}),
           {Untouched})

\* A request arrives whenever a thread is free, whatever the other threads are
\* doing; the lowest free thread takes it (threads are interchangeable).
BeginConc(t) ==
  /\ \A u \in Threads : pc[u] = "idle" => t <= u
  /\ \E r \in ConcRequests : Receive(t, r)

InitConc ==
  /\ persons = [n \in {"Alice"} |-> 1]
  /\ tasks = [n \in {"Dishes"} |-> 1]
  /\ InitThreads

NextConc == \E t \in Threads : BeginConc(t) \/ Handle(t)

SpecConc == InitConc /\ [][NextConc]_vars

\* =====================================================================
\* Properties
\* =====================================================================
HasFlash(t, m) == \E i \in 1..Len(flashes[t]) : flashes[t][i] = m

Called(t, c) == \E i \in 1..Len(calls[t]) : calls[t][i] = c

\* Call c of thread t raised and was rolled back.
RolledBack(t, c) ==
  \E i \in 1..(Len(calls[t]) - 1) : calls[t][i] = c /\ calls[t][i + 1] = "rollback"

IsUpload(t) ==
  req[t].method = "POST" /\ req[t].action = "upload_csv" /\ req[t].file.present

\* The name ends in '.csv', whatever the case of its letters.
EndsInDotCsv(name) ==
  /\ Len(name) >= 4
  /\ LowerStr(SubSeq(name, Len(name) - 3, Len(name))) = <<".", "c", "s", "v">>

\* The uploaded file as the tabular parser hands it over (a cell holding an NA
\* marker is an empty cell and names nobody).
Frame(t) == read_csv(req[t].file.content)

\* Row i of the uploaded file names a person and a task of the reference data.
Resolvable(t, i) ==
  /\ Frame(t)[i].Person \in DOMAIN persons
  /\ Frame(t)[i].Task \in DOMAIN tasks

ResolvableRows(t) == {i \in 1..Len(req[t].file.content) : Resolvable(t, i)}

\* The record the reference data and row i of the file call for.
ExpectedRecord(t, i) ==
  LET row == Frame(t)[i]
  IN  TaskRecord(row.Date, persons[row.Person], tasks[row.Task], row.Minutes)

\* process_csv has returned for the upload of thread t, its bulk insert (if
\* any) not having raised.
CsvProcessed(t) ==
  IsUpload(t) /\ pc[t] = "populate" /\ ~RolledBack(t, "bulk_save_objects")

\* C1: a POST 'upload_csv' whose file name does not end in '.csv' (in any
\* case) makes no database call at all, truncate-staging included, and is
\* answered with the rejection message.
C1_RejectedUploadMakesNoCall ==
  \A t \in Threads :
    (IsUpload(t) /\ ~EndsInDotCsv(req[t].file.filename)) =>
      /\ calls[t] = <<>>
      /\ pc[t] \in Terminal =>
           HasFlash(t, Msg("danger", "Please upload a valid CSV file."))

\* C2: a POST 'submit_record' whose minutes are an integer <= 0, its other
\* fields valid, is rejected: nothing is staged, no database call is made, and
\* both the generic and the minutes message are flashed.
C2_NonPositiveMinutesRejected ==
  \A t \in Threads :
    ( /\ req[t].method = "POST" /\ req[t].action = "submit_record"
      /\ req[t].minutes.kind = "int" /\ req[t].minutes.val <= 0
      /\ req[t].date = TheDate
      /\ req[t].person \in {persons[n] : n \in DOMAIN persons}
      /\ req[t].task \in {tasks[n] : n \in DOMAIN tasks} ) =>
      /\ calls[t] = <<>>
      /\ staged[t] = {}
      /\ pc[t] # "idle" => pc[t] = "rendered"
      /\ pc[t] = "rendered" =>
           /\ HasFlash(t, Msg("danger", "Invalid action or form submission."))
           /\ HasFlash(t, Msg("danger", "Minutes field should be greater than 0."))

\* C3: for every reference mapping and every CSV with M >= 1 rows naming a
\* person and a task of the mappings, process_csv inserts exactly those M rows
\* in one bulk insert, each with the mapped ids and the row's date and
\* minutes, and flashes the success message with the count M.
C3_ExactlyResolvableRowsInserted ==
  \A t \in Threads :
    (CsvProcessed(t) /\ ResolvableRows(t) # {}) =>
      /\ Cardinality(staged[t]) = Cardinality(ResolvableRows(t))
      /\ \A i \in ResolvableRows(t) :
           \E s \in staged[t] :
             /\ s.rec = ExpectedRecord(t, i)
             /\ s.idx = Cardinality({j \in ResolvableRows(t) : j <= i})
      /\ Cardinality({k \in 1..Len(calls[t]) : calls[t][k] = "bulk_save_objects"}) = 1
      /\ HasFlash(t, Flash("success", "Successfully inserted task records.", "",
                           Cardinality(ResolvableRows(t))))

\* C4: a CSV row whose person or task is absent from the reference mapping is
\* left out of the inserted set and gets a diagnostic naming its missing
\* entity, and it does not stop the scan: every later row that names a known
\* person and task is inserted.
C4_AbsentRowSkippedScanContinues ==
  \A t \in Threads :
    CsvProcessed(t) =>
      LET content == Frame(t)
          bad     == (1..Len(content)) \ ResolvableRows(t)
      IN  /\ \A s \in staged[t] : \E i \in ResolvableRows(t) : s.rec = ExpectedRecord(t, i)
          /\ Cardinality(staged[t]) <= Cardinality(ResolvableRows(t))
          /\ \A i \in bad :
               IF content[i].Person \notin DOMAIN persons
               THEN HasFlash(t, Flash("danger", "Person not found in database.",
                                      content[i].Person, 0))
               ELSE HasFlash(t, Flash("danger", "Task not found in database.",
                                      content[i].Task, 0))
          /\ \A i \in bad : \A j \in ResolvableRows(t) :
               j > i => \E s \in staged[t] : s.rec = ExpectedRecord(t, j)

\* C5: when no row of the CSV names a known person and a known task (a file
\* of a header alone included), process_csv makes no insert and no commit and
\* reports the batch with exactly one 'warning' message, 'No valid task
\* records to insert.', not with a 'danger' one.
C5_NoResolvableRowWarns ==
  \A t \in Threads :
    (IsUpload(t) /\ pc[t] = "populate" /\ ResolvableRows(t) = {}) =>
      /\ staged[t] = {}
      /\ staging = {}
      /\ calls[t] \in {<<TRUNCATE, "commit">>, <<TRUNCATE, "rollback">>}
      /\ Cardinality({k \in 1..Len(flashes[t]) : flashes[t][k].category = "warning"}) = 1
      /\ HasFlash(t, Msg("warning", "No valid task records to insert."))
      /\ ~HasFlash(t, Msg("danger", "Error processing CSV"))
      /\ \A k \in 1..Len(flashes[t]) :
           flashes[t][k].text # "Successfully inserted task records."

C5_Witness ==
  \E t \in Threads :
    /\ IsUpload(t) /\ pc[t] = "populate" /\ ResolvableRows(t) = {}
    /\ Len(req[t].file.content) = MaxRows
    /\ persons # << >> /\ tasks # << >>
    /\ HasFlash(t, Msg("warning", "No valid task records to insert."))

\* The staging write and the stored procedure calls of thread t, in order.
MajorOps(t) ==
  SelectSeq(calls[t], LAMBDA c : c \notin {"commit", "rollback"})

IsPrefix(p, q) == Len(p) <= Len(q) /\ SubSeq(q, 1, Len(p)) = p

\* Thread t handles an accepted submission: a valid manual record, or an
\* upload under an allowed name.
Accepted(t) ==
  \/ pc[t] \in {"insert", "process_csv", "populate", "backfill"}
  \/ /\ pc[t] = "redirected"
     /\ req[t].action = "upload_csv" => allowed_file(req[t].file.filename)
  \/ pc[t] = "error" /\ calls[t] # <<>>

\* C6: within an accepted submission the calls come in the order truncate,
\* staging write, populate, backfill; a stored procedure call that raises is
\* rolled back and reported as 'danger', and the request goes on to its next
\* operation: it ends with all three procedures called.
C6_PipelineOrderAndIndependence ==
  \A t \in Threads :
    /\ \E w \in {<<"add">>, <<"bulk_save_objects">>, <<>>} :
         IsPrefix(MajorOps(t), <<TRUNCATE>> \o w \o <<POPULATE, BACKFILL>>)
    /\ \A i \in 1..Len(calls[t]) :
         calls[t][i] \in {TRUNCATE, POPULATE, BACKFILL} =>
           i < Len(calls[t]) /\ calls[t][i + 1] \in {"commit", "rollback"}
    /\ RolledBack(t, TRUNCATE) <=>
         HasFlash(t, Msg("danger", "Error while truncate stg_fact_housework_tasks"))
    /\ RolledBack(t, POPULATE) <=>
         HasFlash(t, Msg("danger", "Error while populate fact_housework_tasks"))
    /\ RolledBack(t, BACKFILL) <=>
         HasFlash(t, Msg("danger", "Error while backfilling agg_daily_housework_tasks"))
    /\ pc[t] = "error" /\ calls[t] # <<>> => calls[t][Len(calls[t])] = "add"
    /\ (Accepted(t) /\ pc[t] = "redirected") =>
         /\ Called(t, TRUNCATE) /\ Called(t, POPULATE) /\ Called(t, BACKFILL)
         /\ req[t].action = "submit_record" => Called(t, "add")

C6_Witness ==
  \E t \in Threads :
    /\ Accepted(t) /\ pc[t] = "redirected"
    /\ RolledBack(t, TRUNCATE)
    /\ MajorOps(t) \in {<<TRUNCATE, "add", POPULATE, BACKFILL>>,
                        <<TRUNCATE, "bulk_save_objects", POPULATE, BACKFILL>>}

\* C7: a storage failure in any persistence call of a request (the manual
\* insert and commit, the bulk insert, a stored procedure call) never escapes
\* the handler: it is rolled back and flashed as 'danger', and the request
\* ends in its redirect or in the rendered form.
C7_StorageFailureNeverEscapes ==
  \A t \in Threads :
    /\ calls[t] # <<>> => pc[t] # "error"
    /\ \A i \in 1..Len(calls[t]) :
         calls[t][i] \notin {"commit", "rollback"} =>
           i < Len(calls[t]) /\ calls[t][i + 1] \in {"commit", "rollback"}
    /\ (\E c \in {TRUNCATE, POPULATE, BACKFILL, "add", "bulk_save_objects"} :
          RolledBack(t, c)) =>
         \E k \in 1..Len(flashes[t]) : flashes[t][k].category = "danger"

\* C8: with requests handled one at a time, when a request calls populate-fact
\* the staging table holds exactly the rows that request staged, none left
\* over from an earlier request.
C8_PopulateSeesOwnBatchOnly ==
  \A t \in Threads : Called(t, POPULATE) => popSaw[t] = staged[t]

\* C9: nothing guards staging across requests.  While one request has
\* committed its rows and has yet to call populate-fact, another request's
\* truncate-staging is free to run; so populate-fact can run on a staging
\* table that lacks rows its own request staged.
C9_TruncateUnguarded ==
  \A t \in Threads : \A u \in Threads \ {t} :
    (pc[t] = "populate" /\ staged[t] # {} /\ pc[u] = "truncate") =>
      ENABLED TruncateStaging(u)

\* The race has happened with no database call raising: populate-fact of one
\* request read a staging table without the rows that request had committed.
C9_Witness ==
  \E t \in Threads :
    /\ faults = 0
    /\ Called(t, POPULATE)
    /\ staged[t] # {}
    /\ staged[t] \cap popSaw[t] = {}

\* A request of thread t that takes neither accepted branch.
NotAccepted(t) ==
  /\ req[t].method = "POST"
  /\ \/ req[t].action \notin {"submit_record", "upload_csv"}
     \/ req[t].action = "upload_csv" /\ ~req[t].file.present
     \/ /\ req[t].action = "submit_record"
        /\ ~validate_on_submit(req[t], {persons[n] : n \in DOMAIN persons},
                               {tasks[n] : n \in DOMAIN tasks})

\* C10: a POST that takes neither accepted branch, whatever its minutes field
\* holds (nothing, or text that is no integer), flashes the generic message
\* and ends by rendering the form, with no database call and nothing staged;
\* a GET changes nothing either.
C10_UnacceptedPostRendersForm ==
  \A t \in Threads :
    /\ NotAccepted(t) =>
         /\ pc[t] = "rendered"
         /\ HasFlash(t, Msg("danger", "Invalid action or form submission."))
         /\ calls[t] = <<>> /\ staged[t] = {}
    /\ (pc[t] # "idle" /\ req[t].method = "GET") =>
         pc[t] = "rendered" /\ flashes[t] = <<>> /\ calls[t] = <<>> /\ staged[t] = {}

====
